---- MODULE Spec2Model ----
(***************************************************************************)
(* GitHub porcelain (src/unnamed/part_001): typed, lazy entity views over  *)
(* a plugin-namespaced property graph.  The graph is a value fixed at      *)
(* construction; the porcelain operations are the actions.                 *)
(***************************************************************************)
EXTENDS FiniteSets, Integers, Sequences, TLC

VARIABLES graph, ent, call, result

vars == <<graph, ent, call, result>>

(***************************************************************************)
(* Bounds of the explored graphs.                                          *)
(***************************************************************************)
MaxNodes == 3
MaxEdges == 2

(***************************************************************************)
(* Type tags and plugin names.                                             *)
(***************************************************************************)
PLUGIN_NAME == "sourcecred/github"
GIT_PLUGIN_NAME == "sourcecred/git"

ISSUE_NODE_TYPE == "ISSUE"
PULL_REQUEST_NODE_TYPE == "PULL_REQUEST"
COMMENT_NODE_TYPE == "COMMENT"
AUTHOR_NODE_TYPE == "AUTHOR"
PULL_REQUEST_REVIEW_NODE_TYPE == "PULL_REQUEST_REVIEW"
PULL_REQUEST_REVIEW_COMMENT_NODE_TYPE == "PULL_REQUEST_REVIEW_COMMENT"
REPOSITORY_NODE_TYPE == "REPOSITORY"
COMMIT_NODE_TYPE == "COMMIT"

AUTHORS_EDGE_TYPE == "AUTHORS"
CONTAINS_EDGE_TYPE == "CONTAINS"
REFERENCES_EDGE_TYPE == "REFERENCES"
MERGED_AS_EDGE_TYPE == "MERGED_AS"

\* A tag of the owning plugin's namespace that is no member of NodeType.
LABEL_TYPE == "LABEL"

(***************************************************************************)
(* Values: addresses, results, entities.                                   *)
(***************************************************************************)
Addr(p, t, i) == [pluginName |-> p, type |-> t, id |-> i]

Ok(v) == [kind |-> "ok", val |-> v]
Err(e) == [kind |-> "error", val |-> e]
\* JavaScript's undefined and null, as results.
Undefined == [kind |-> "undefined", val |-> "undefined"]
Null == [kind |-> "null", val |-> "null"]

\* An option that a caller left out of a query.
Omitted == "(omitted)"

\* new C(graph, nodeAddress): the constructor stores its two arguments.
GithubEntity(class, nodeAddress) == [class |-> class, nodeAddress |-> nodeAddress]

NoEntity == [class |-> "(none)", nodeAddress |-> Addr("", "", "")]

(***************************************************************************)
(* The graph: nodes and edges in insertion order.                          *)
(***************************************************************************)
Node(a, payload) == [address |-> a, payload |-> payload]
Edge(a, src, dst, payload) == [address |-> a, src |-> src, dst |-> dst, payload |-> payload]

\* graph.nodes({type}): the nodes whose address has the type, in a stable order.
RECURSIVE nodes(_, _)
nodes(g, t) ==
  IF g.nodes = <<>> THEN <<>>
  ELSE LET n == Head(g.nodes)
           rest == nodes([g EXCEPT !.nodes = Tail(g.nodes)], t)
       IN IF t = Omitted \/ n.address.type = t THEN <<n>> \o rest ELSE rest

\* graph.node(address): the node at the address, or undefined.
node(g, a) ==
  LET hits == {i \in 1..Len(g.nodes) : g.nodes[i].address = a}
  IN IF hits = {} THEN Undefined ELSE Ok(g.nodes[CHOOSE i \in hits : TRUE])

\* graph.neighborhood(address, {edgeType, nodeType, direction}): every edge
\* incident to the address that passes all the supplied criteria, with the
\* address at its other end; an omitted criterion filters nothing.
RECURSIVE neighborhoodOf(_, _, _, _, _)
neighborhoodOf(edges, a, edgeType, nodeType, direction) ==
  IF edges = <<>> THEN <<>>
  ELSE LET e == Head(edges)
           rest == neighborhoodOf(Tail(edges), a, edgeType, nodeType, direction)
           out == e.src = a /\ direction \in {Omitted, "OUT"}
           in == e.dst = a /\ direction \in {Omitted, "IN"}
           neighbor == IF out THEN e.dst ELSE e.src
           pass == /\ out \/ in
                   /\ edgeType = Omitted \/ e.address.type = edgeType
                   /\ nodeType = Omitted \/ neighbor.type = nodeType
       IN IF pass THEN <<[edge |-> e, neighbor |-> neighbor]>> \o rest ELSE rest

neighborhood(g, a, edgeType, nodeType, direction) ==
  neighborhoodOf(g.edges, a, edgeType, nodeType, direction)

(***************************************************************************)
(* The porcelain.                                                          *)
(***************************************************************************)
NodeTypes ==
  { ISSUE_NODE_TYPE, PULL_REQUEST_NODE_TYPE, COMMENT_NODE_TYPE, AUTHOR_NODE_TYPE,
    PULL_REQUEST_REVIEW_NODE_TYPE, PULL_REQUEST_REVIEW_COMMENT_NODE_TYPE,
    REPOSITORY_NODE_TYPE }

\* e.type() and e.address()
type(e) == e.nodeAddress.type
address(e) == e.nodeAddress

\* assertEntityType with the check left out.
assertEntityType_noThrow(e, t) == Ok(e)

assertEntityType(e, t) ==
  IF type(e) # t THEN Err("TypeMismatch") ELSE Ok(e)

\* asEntity with a default branch that falls back to a variant.
asEntity_silentDefault(addr) ==
  IF addr.pluginName # PLUGIN_NAME THEN Err("WrongNamespace")
  ELSE CASE addr.type = "ISSUE" -> Ok(GithubEntity("Issue", addr))
         [] addr.type = "PULL_REQUEST" -> Ok(GithubEntity("PullRequest", addr))
         [] addr.type = "COMMENT" -> Ok(GithubEntity("Comment", addr))
         [] addr.type = "AUTHOR" -> Ok(GithubEntity("Author", addr))
         [] addr.type = "PULL_REQUEST_REVIEW" -> Ok(GithubEntity("PullRequestReview", addr))
         [] addr.type = "PULL_REQUEST_REVIEW_COMMENT" ->
              Ok(GithubEntity("PullRequestReviewComment", addr))
         [] OTHER -> Ok(GithubEntity("Repository", addr))

\* asEntity with the plugin name checked in the default branch only.
asEntity_dispatchFirst(addr) ==
  CASE addr.type = "ISSUE" -> Ok(GithubEntity("Issue", addr))
    [] addr.type = "PULL_REQUEST" -> Ok(GithubEntity("PullRequest", addr))
    [] addr.type = "COMMENT" -> Ok(GithubEntity("Comment", addr))
    [] addr.type = "AUTHOR" -> Ok(GithubEntity("Author", addr))
    [] addr.type = "PULL_REQUEST_REVIEW" -> Ok(GithubEntity("PullRequestReview", addr))
    [] addr.type = "PULL_REQUEST_REVIEW_COMMENT" ->
         Ok(GithubEntity("PullRequestReviewComment", addr))
    [] addr.type = "REPOSITORY" -> Ok(GithubEntity("Repository", addr))
    [] OTHER -> IF addr.pluginName # PLUGIN_NAME THEN Err("WrongNamespace")
                ELSE Err("UnknownEntityType")

asEntity(addr) ==
  IF addr.pluginName # PLUGIN_NAME THEN Err("WrongNamespace")
  ELSE CASE addr.type = "ISSUE" -> Ok(GithubEntity("Issue", addr))
         [] addr.type = "PULL_REQUEST" -> Ok(GithubEntity("PullRequest", addr))
         [] addr.type = "COMMENT" -> Ok(GithubEntity("Comment", addr))
         [] addr.type = "AUTHOR" -> Ok(GithubEntity("Author", addr))
         [] addr.type = "PULL_REQUEST_REVIEW" -> Ok(GithubEntity("PullRequestReview", addr))
         [] addr.type = "PULL_REQUEST_REVIEW_COMMENT" ->
              Ok(GithubEntity("PullRequestReviewComment", addr))
         [] addr.type = "REPOSITORY" -> Ok(GithubEntity("Repository", addr))
         [] OTHER -> Err("UnknownEntityType")

\* payloadField with an optional chain: an absent node reads as undefined.
payloadField_optional(g, e, field) ==
  LET n == node(g, e.nodeAddress)
  IN IF n.kind = "undefined" THEN Undefined
     ELSE IF field \in DOMAIN n.val.payload THEN Ok(n.val.payload[field])
     ELSE Undefined

\* this.node().payload.<field>: reading the payload of an absent node throws.
payloadField(g, e, field) ==
  LET n == node(g, e.nodeAddress)
  IN IF n.kind = "undefined" THEN Err("MissingPayload")
     ELSE IF field \in DOMAIN n.val.payload THEN Ok(n.val.payload[field])
     ELSE Undefined

\* xs.map(x => new C(graph, x.<key>)), key being "address" or "neighbor"
mapNew(xs, class, key) == [i \in 1..Len(xs) |-> GithubEntity(class, xs[i][key])]

\* Porcelain.repositories()
repositories(g) == Ok(mapNew(nodes(g, REPOSITORY_NODE_TYPE), "Repository", "address"))

\* repository without the check for several matches.
repository_first(g, owner, name) ==
  LET all == repositories(g).val
      match(r) == /\ payloadField(g, r, "owner") = Ok(owner)
                  /\ payloadField(g, r, "name") = Ok(name)
      repo == SelectSeq(all, match)
  IN IF Len(repo) = 0 THEN Undefined ELSE Ok(repo[1])

\* Porcelain.repository(owner, name)
repository(g, owner, name) ==
  LET all == repositories(g).val
      match(r) == /\ payloadField(g, r, "owner") = Ok(owner)
                  /\ payloadField(g, r, "name") = Ok(name)
      repo == SelectSeq(all, match)
  IN IF Len(repo) > 1 THEN Err("MultipleRepositories")
     ELSE IF Len(repo) = 0 THEN Undefined
     ELSE Ok(repo[1])

\* One forEach loop of issueOrPRByNumber: each match overwrites the slot.
RECURSIVE scanByNumber(_, _, _, _)
scanByNumber(ns, number, class, slot) ==
  IF ns = <<>> THEN slot
  ELSE scanByNumber(Tail(ns), number, class,
         IF "number" \in DOMAIN Head(ns).payload /\ Head(ns).payload.number = number
         THEN Ok(GithubEntity(class, Head(ns).address))
         ELSE slot)

\* issueOrPRByNumber with the two loops in the other order.
issueOrPRByNumber_pullRequestsFirst(g, number) ==
  LET afterPRs == scanByNumber(nodes(g, PULL_REQUEST_NODE_TYPE), number, "PullRequest", Undefined)
  IN scanByNumber(nodes(g, ISSUE_NODE_TYPE), number, "Issue", afterPRs)

\* Repository.issueOrPRByNumber(number)
issueOrPRByNumber(g, number) ==
  LET afterIssues == scanByNumber(nodes(g, ISSUE_NODE_TYPE), number, "Issue", Undefined)
  IN scanByNumber(nodes(g, PULL_REQUEST_NODE_TYPE), number, "PullRequest", afterIssues)

\* Repository.issues(), pullRequests(), authors()
issues(g) == Ok(mapNew(nodes(g, ISSUE_NODE_TYPE), "Issue", "address"))
pullRequests(g) == Ok(mapNew(nodes(g, PULL_REQUEST_NODE_TYPE), "PullRequest", "address"))
Repository_authors(g) == Ok(mapNew(nodes(g, AUTHOR_NODE_TYPE), "Author", "address"))

\* Post.authors()
Post_authors(g, e) ==
  Ok(mapNew(neighborhood(g, e.nodeAddress, AUTHORS_EDGE_TYPE, AUTHOR_NODE_TYPE, Omitted),
            "Author", "neighbor"))

\* The map of references() with the throw caught and the neighbor skipped.
RECURSIVE mapAsEntity_skip(_, _)
mapAsEntity_skip(hood, done) ==
  IF hood = <<>> THEN Ok(done)
  ELSE LET r == asEntity(Head(hood).neighbor)
       IN IF r.kind = "error" THEN mapAsEntity_skip(Tail(hood), done)
          ELSE mapAsEntity_skip(Tail(hood), Append(done, r.val))

\* hood.map(({neighbor}) => asEntity(graph, neighbor)): the first throw ends the map.
RECURSIVE mapAsEntity(_, _)
mapAsEntity(hood, done) ==
  IF hood = <<>> THEN Ok(done)
  ELSE LET r == asEntity(Head(hood).neighbor)
       IN IF r.kind = "error" THEN r
          ELSE mapAsEntity(Tail(hood), Append(done, r.val))

\* Post.references()
references(g, e) ==
  mapAsEntity(neighborhood(g, e.nodeAddress, REFERENCES_EDGE_TYPE, Omitted, "OUT"), <<>>)

\* Commentable.comments()
comments(g, e) ==
  Ok(mapNew(neighborhood(g, e.nodeAddress, CONTAINS_EDGE_TYPE, COMMENT_NODE_TYPE, Omitted),
            "Comment", "neighbor"))

\* PullRequestReview.comments()
reviewComments(g, e) ==
  Ok(mapNew(neighborhood(g, e.nodeAddress, CONTAINS_EDGE_TYPE,
                         PULL_REQUEST_REVIEW_COMMENT_NODE_TYPE, Omitted),
            "PullRequestReviewComment", "neighbor"))

\* PullRequest.reviews()
reviews(g, e) ==
  Ok(mapNew(neighborhood(g, e.nodeAddress, CONTAINS_EDGE_TYPE,
                         PULL_REQUEST_REVIEW_NODE_TYPE, Omitted),
            "PullRequestReview", "neighbor"))

\* mergeCommitHash without the direction of the query.
mergeCommitHash_anyDirection(g, e) ==
  LET hood == neighborhood(g, e.nodeAddress, MERGED_AS_EDGE_TYPE, COMMIT_NODE_TYPE, Omitted)
      mergeEdge == [i \in 1..Len(hood) |-> hood[i].edge]
  IN IF Len(mergeEdge) > 1 THEN Err("InvariantViolation")
     ELSE IF Len(mergeEdge) = 0 THEN Null
     ELSE Ok(mergeEdge[1].payload.hash)

\* PullRequest.mergeCommitHash()
mergeCommitHash(g, e) ==
  LET hood == neighborhood(g, e.nodeAddress, MERGED_AS_EDGE_TYPE, COMMIT_NODE_TYPE, "OUT")
      mergeEdge == [i \in 1..Len(hood) |-> hood[i].edge]
  IN IF Len(mergeEdge) > 1 THEN Err("InvariantViolation")
     ELSE IF Len(mergeEdge) = 0 THEN Null
     ELSE Ok(mergeEdge[1].payload.hash)

\* The classes of the hierarchy: which class has which method.
Posts == {"Issue", "PullRequest", "Comment", "PullRequestReview", "PullRequestReviewComment"}
Commentables == {"Issue", "PullRequest"}

\* The tag each downcast V.from asserts.
FromTag ==
  [Author |-> AUTHOR_NODE_TYPE, PullRequest |-> PULL_REQUEST_NODE_TYPE,
   Issue |-> ISSUE_NODE_TYPE, Comment |-> COMMENT_NODE_TYPE,
   PullRequestReview |-> PULL_REQUEST_REVIEW_NODE_TYPE,
   PullRequestReviewComment |-> PULL_REQUEST_REVIEW_COMMENT_NODE_TYPE]

\* V.from(e)
from(V, e) == assertEntityType(e, FromTag[V])

\* The payload fields each class reads through an accessor of its own.
FieldsOf(class) ==
  {"url"} \cup
  (IF class \in Posts THEN {"body"} ELSE {}) \cup
  (IF class \in Commentables THEN {"number", "title"} ELSE {}) \cup
  (IF class = "Repository" THEN {"owner", "name"} ELSE {}) \cup
  (IF class = "Author" THEN {"login", "subtype"} ELSE {}) \cup
  (IF class = "PullRequestReview" THEN {"state"} ELSE {})

(***************************************************************************)
(* The graphs explored.  A graph is built before the porcelain is used:    *)
(* either nodes only, in any order (the graph-wide scans), or a fixed set  *)
(* of nodes with edges around one pull request (the neighborhood queries). *)
(***************************************************************************)
gh(t, i) == Addr(PLUGIN_NAME, t, i)

RepositoryPayload(owner, name) == [url |-> "url/" \o name, owner |-> owner, name |-> name]
IssuePayload(number, title) == [url |-> "url/" \o title, number |-> number, title |-> title, body |-> "body/" \o title]
AuthorPayload(login) == [url |-> "url/" \o login, login |-> login, subtype |-> "USER"]
CommentPayload(body) == [url |-> "url/" \o body, body |-> body]
OtherPayload == [url |-> "url/other"]

Numbers == {1, 2}
Owners == {"acme"}
Names == {"widgets", "gadgets"}

\* Candidate nodes of the scans: repositories and numbered issues and pull
\* requests, with collisions of owner/name and of number.
ScanNodes ==
  { Node(gh(REPOSITORY_NODE_TYPE, "r1"), RepositoryPayload("acme", "widgets")),
    Node(gh(REPOSITORY_NODE_TYPE, "r2"), RepositoryPayload("acme", "widgets")),
    Node(gh(REPOSITORY_NODE_TYPE, "r3"), RepositoryPayload("acme", "gadgets")),
    Node(gh(ISSUE_NODE_TYPE, "i1"), IssuePayload(1, "Bug")),
    Node(gh(ISSUE_NODE_TYPE, "i2"), IssuePayload(1, "Dup")),
    Node(gh(PULL_REQUEST_NODE_TYPE, "p1"), IssuePayload(1, "Fix")),
    Node(gh(PULL_REQUEST_NODE_TYPE, "p2"), IssuePayload(2, "Feature")) }

InjectiveSeqs(S, n) ==
  UNION { { s \in [1..k -> S] : \A i, j \in 1..k : i # j => s[i] # s[j] } : k \in 0..n }

ScanGraphs == { [nodes |-> ns, edges |-> <<>>] : ns \in InjectiveSeqs(ScanNodes, MaxNodes) }

\* The nodes around pull request p1.
P1 == gh(PULL_REQUEST_NODE_TYPE, "p1")
I1 == gh(ISSUE_NODE_TYPE, "i1")
A1 == gh(AUTHOR_NODE_TYPE, "a1")
C1 == gh(COMMENT_NODE_TYPE, "c1")
V1 == gh(PULL_REQUEST_REVIEW_NODE_TYPE, "v1")
L1 == gh(LABEL_TYPE, "l1")
K1 == Addr(GIT_PLUGIN_NAME, COMMIT_NODE_TYPE, "k1")
F1 == Addr(GIT_PLUGIN_NAME, ISSUE_NODE_TYPE, "f1")

EdgeNodes ==
  << Node(P1, IssuePayload(1, "Fix")), Node(I1, IssuePayload(2, "Bug")),
     Node(A1, AuthorPayload("alice")), Node(C1, CommentPayload("lgtm")),
     Node(V1, CommentPayload("review")), Node(L1, OtherPayload),
     Node(K1, OtherPayload), Node(F1, OtherPayload) >>

E(t, i, src, dst) == Edge(gh(t, i), src, dst, [hash |-> "hash/" \o i])

\* Candidate edges: for every edge type, edges out of p1 and into p1, to
\* neighbors of the expected type and of other types.
EdgeCandidates ==
  << E(AUTHORS_EDGE_TYPE, "e01", P1, A1),
     E(AUTHORS_EDGE_TYPE, "e02", A1, P1),
     E(AUTHORS_EDGE_TYPE, "e03", P1, L1),
     E(REFERENCES_EDGE_TYPE, "e04", P1, F1),
     E(REFERENCES_EDGE_TYPE, "e05", P1, I1),
     E(REFERENCES_EDGE_TYPE, "e06", P1, L1),
     E(REFERENCES_EDGE_TYPE, "e07", P1, A1),
     E(REFERENCES_EDGE_TYPE, "e08", P1, K1),
     E(REFERENCES_EDGE_TYPE, "e09", I1, P1),
     E(MERGED_AS_EDGE_TYPE, "e10", P1, K1),
     E(MERGED_AS_EDGE_TYPE, "e11", P1, K1),
     E(MERGED_AS_EDGE_TYPE, "e12", K1, P1),
     E(MERGED_AS_EDGE_TYPE, "e13", P1, A1),
     E(CONTAINS_EDGE_TYPE, "e14", P1, C1),
     E(CONTAINS_EDGE_TYPE, "e15", P1, V1),
     E(CONTAINS_EDGE_TYPE, "e16", V1, P1) >>

\* The candidates at the indices of S, in increasing (up) or decreasing order.
RECURSIVE pick(_, _, _)
pick(S, i, up) ==
  IF i > Len(EdgeCandidates) THEN <<>>
  ELSE LET rest == pick(S, i + 1, up)
       IN IF i \notin S THEN rest
          ELSE IF up THEN <<EdgeCandidates[i]>> \o rest
          ELSE Append(rest, EdgeCandidates[i])

EdgeGraphs ==
  { [nodes |-> EdgeNodes, edges |-> pick(S, 1, up)] :
      S \in { T \in SUBSET (1..Len(EdgeCandidates)) : Cardinality(T) <= MaxEdges },
      up \in BOOLEAN }

Graphs == ScanGraphs \cup EdgeGraphs

\* The addresses a caller resolves: those of the graph's nodes, and
\* addresses that no node has.
GhostAddresses ==
  { gh(t, "ghost") : t \in NodeTypes \cup {LABEL_TYPE} } \cup
  { Addr(GIT_PLUGIN_NAME, t, "ghost") : t \in {ISSUE_NODE_TYPE, COMMIT_NODE_TYPE} }

AddressesOf(g) == { g.nodes[i].address : i \in 1..Len(g.nodes) }

(***************************************************************************)
(* The caller: it holds one entity (ent) and records its last call and     *)
(* what the call returned or threw.                                        *)
(***************************************************************************)
NoAddress == Addr("", "", "")

Call(op, subject, addr, number, owner, name) ==
  [op |-> op, subject |-> subject, addr |-> addr, number |-> number,
   owner |-> owner, name |-> name]

\* A call on the held entity, with no argument.
Method(op) == Call(op, ent, NoAddress, 0, "", "")

ListOps == {"repositories", "issues", "pullRequests", "Repository.authors",
            "authors", "references", "comments", "reviews"}
EntityOps == {"repository", "issueOrPRByNumber", "from"}

Init ==
  /\ graph \in Graphs
  /\ ent = NoEntity
  /\ call = Call("(none)", NoEntity, NoAddress, 0, "", "")
  /\ result = Undefined

\* asEntity(graph, addr); the caller keeps the entity returned.
AsEntity ==
  \E addr \in AddressesOf(graph) \cup GhostAddresses :
    /\ result' = asEntity(addr)
    /\ ent' = IF result'.kind = "ok" THEN result'.val ELSE NoEntity
    /\ call' = Call("asEntity", NoEntity, addr, 0, "", "")
    /\ UNCHANGED graph

\* The caller takes an entity out of what the last call returned.
Select ==
  /\ result.kind = "ok"
  /\ \/ call.op \in ListOps /\ \E i \in 1..Len(result.val) : ent' = result.val[i]
     \/ call.op \in EntityOps /\ ent' = result.val
  /\ call' = Call("select", NoEntity, ent'.nodeAddress, 0, "", "")
  /\ result' = Ok(ent')
  /\ UNCHANGED graph

Repositories ==
  /\ result' = repositories(graph)
  /\ call' = Call("repositories", NoEntity, NoAddress, 0, "", "")
  /\ UNCHANGED <<graph, ent>>

RepositoryByName ==
  \E owner \in Owners, name \in Names :
    /\ result' = repository(graph, owner, name)
    /\ call' = Call("repository", NoEntity, NoAddress, 0, owner, name)
    /\ UNCHANGED <<graph, ent>>

\* url(), body(), number(), title(), owner(), name(), login(), subtype(), state()
Field ==
  \E field \in FieldsOf(ent.class) :
    /\ ent # NoEntity
    /\ result' = payloadField(graph, ent, field)
    /\ call' = Method(field)
    /\ UNCHANGED <<graph, ent>>

TypeOf ==
  /\ ent # NoEntity
  /\ result' = Ok(type(ent))
  /\ call' = Method("type")
  /\ UNCHANGED <<graph, ent>>

AddressOf ==
  /\ ent # NoEntity
  /\ result' = Ok(address(ent))
  /\ call' = Method("address")
  /\ UNCHANGED <<graph, ent>>

From ==
  \E V \in DOMAIN FromTag :
    /\ ent # NoEntity
    /\ result' = from(V, ent)
    /\ call' = Call("from", ent, NoAddress, 0, "", V)
    /\ UNCHANGED <<graph, ent>>

\* issueOrPRByNumber finding the last match by reversing the graph's node
\* list in place.
IssueOrPRByNumber_reversing ==
  \E number \in Numbers :
    /\ ent.class = "Repository"
    /\ result' = issueOrPRByNumber(graph, number)
    /\ call' = Call("issueOrPRByNumber", ent, NoAddress, number, "", "")
    /\ graph' = [graph EXCEPT !.nodes = [i \in 1..Len(graph.nodes) |->
                                           graph.nodes[Len(graph.nodes) + 1 - i]]]
    /\ UNCHANGED ent

IssueOrPRByNumber ==
  \E number \in Numbers :
    /\ ent.class = "Repository"
    /\ result' = issueOrPRByNumber(graph, number)
    /\ call' = Call("issueOrPRByNumber", ent, NoAddress, number, "", "")
    /\ UNCHANGED <<graph, ent>>

Issues ==
  /\ ent.class = "Repository"
  /\ result' = issues(graph)
  /\ call' = Method("issues")
  /\ UNCHANGED <<graph, ent>>

PullRequests ==
  /\ ent.class = "Repository"
  /\ result' = pullRequests(graph)
  /\ call' = Method("pullRequests")
  /\ UNCHANGED <<graph, ent>>

RepositoryAuthors ==
  /\ ent.class = "Repository"
  /\ result' = Repository_authors(graph)
  /\ call' = Method("Repository.authors")
  /\ UNCHANGED <<graph, ent>>

Authors ==
  /\ ent.class \in Posts
  /\ result' = Post_authors(graph, ent)
  /\ call' = Method("authors")
  /\ UNCHANGED <<graph, ent>>

References ==
  /\ ent.class \in Posts
  /\ result' = references(graph, ent)
  /\ call' = Method("references")
  /\ UNCHANGED <<graph, ent>>

Comments ==
  /\ ent.class \in Commentables \cup {"PullRequestReview"}
  /\ result' = IF ent.class = "PullRequestReview" THEN reviewComments(graph, ent)
               ELSE comments(graph, ent)
  /\ call' = Method("comments")
  /\ UNCHANGED <<graph, ent>>

Reviews ==
  /\ ent.class = "PullRequest"
  /\ result' = reviews(graph, ent)
  /\ call' = Method("reviews")
  /\ UNCHANGED <<graph, ent>>

MergeCommitHash ==
  /\ ent.class = "PullRequest"
  /\ result' = mergeCommitHash(graph, ent)
  /\ call' = Method("mergeCommitHash")
  /\ UNCHANGED <<graph, ent>>

Next ==
  \/ AsEntity
  \/ Select
  \/ Repositories
  \/ RepositoryByName
  \/ Field
  \/ TypeOf
  \/ AddressOf
  \/ From
  \/ IssueOrPRByNumber
  \/ Issues
  \/ PullRequests
  \/ RepositoryAuthors
  \/ Authors
  \/ References
  \/ Comments
  \/ Reviews
  \/ MergeCommitHash

Spec == Init /\ [][Next]_vars

TypeOK ==
  /\ graph \in Graphs
  /\ result.kind \in {"ok", "error", "undefined", "null"}

(***************************************************************************)
(* Properties.                                                             *)
(***************************************************************************)
Threw(r, e) == r.kind = "error" /\ r.val = e

\* The variant of each tag of the closed set.
VariantOf(tag) ==
  CASE tag = "ISSUE" -> "Issue"
    [] tag = "PULL_REQUEST" -> "PullRequest"
    [] tag = "COMMENT" -> "Comment"
    [] tag = "AUTHOR" -> "Author"
    [] tag = "PULL_REQUEST_REVIEW" -> "PullRequestReview"
    [] tag = "PULL_REQUEST_REVIEW_COMMENT" -> "PullRequestReviewComment"
    [] tag = "REPOSITORY" -> "Repository"

ClosedSet == {"ISSUE", "PULL_REQUEST", "COMMENT", "AUTHOR", "PULL_REQUEST_REVIEW",
              "PULL_REQUEST_REVIEW_COMMENT", "REPOSITORY"}

Dangling(a) == \A i \in 1..Len(graph.nodes) : graph.nodes[i].address # a

\* C1: asEntity on an address of the owning plugin's namespace returns the
\* entity of the variant matching the address's tag, with type() the tag and
\* address() the address, when the tag is one of the seven of the closed
\* set; any other tag fails with UnknownEntityType and yields no entity.
C1_DispatchOnClosedSet ==
  (call.op = "asEntity" /\ call.addr.pluginName = PLUGIN_NAME) =>
    IF call.addr.type \in ClosedSet
    THEN /\ result.kind = "ok"
         /\ result.val.class = VariantOf(call.addr.type)
         /\ type(result.val) = call.addr.type
         /\ address(result.val) = call.addr
         /\ ent = result.val
    ELSE /\ Threw(result, "UnknownEntityType")
         /\ ent = NoEntity

C1_Witness ==
  /\ call.op = "asEntity"
  /\ call.addr = V1
  /\ result.kind = "ok"
  /\ result.val.class = "PullRequestReview"

\* C2: asEntity on an address of a foreign namespace fails with
\* WrongNamespace whatever the tag, also when the tag is outside the closed
\* set, and yields no entity.
C2_NamespaceCheckedFirst ==
  (call.op = "asEntity" /\ call.addr.pluginName # PLUGIN_NAME) =>
    /\ Threw(result, "WrongNamespace")
    /\ ent = NoEntity

C2_Witness ==
  /\ call.op = "asEntity"
  /\ call.addr.pluginName = GIT_PLUGIN_NAME
  /\ call.addr.type \notin ClosedSet
  /\ Threw(result, "WrongNamespace")

\* C3: V.from(e) succeeds iff e's type tag is V's tag; it then returns e
\* itself, and otherwise fails with TypeMismatch.
C3_DowncastIffTagMatches ==
  call.op = "from" =>
    IF type(call.subject) = FromTag[call.name]
    THEN result.kind = "ok" /\ result.val = call.subject
    ELSE Threw(result, "TypeMismatch")

C3_Witness ==
  /\ call.op = "from"
  /\ call.name = "Issue"
  /\ call.subject.class = "PullRequest"
  /\ Threw(result, "TypeMismatch")

\* The outgoing MERGED_AS edges of the node at p that end at a Commit node.
MergeEdgesOf(p) ==
  { i \in 1..Len(graph.edges) :
      /\ graph.edges[i].address.type = "MERGED_AS"
      /\ graph.edges[i].src = p
      /\ graph.edges[i].dst.type = "COMMIT" }

\* C4: mergeCommitHash() of a pull request is decided by the number k of its
\* outgoing MERGED_AS edges to Commit nodes: null when k = 0, the hash of
\* the edge's payload when k = 1, InvariantViolation when k >= 2.
C4_MergeCommitHashByCount ==
  call.op = "mergeCommitHash" =>
    LET K == MergeEdgesOf(call.subject.nodeAddress)
    IN /\ Cardinality(K) = 0 => result.kind = "null"
       /\ Cardinality(K) = 1 =>
            /\ result.kind = "ok"
            /\ \A i \in K : result.val = graph.edges[i].payload.hash
       /\ Cardinality(K) >= 2 => Threw(result, "InvariantViolation")

\* One counted edge next to an incoming MERGED_AS edge.
C4_Witness ==
  /\ call.op = "mergeCommitHash"
  /\ Cardinality(MergeEdgesOf(call.subject.nodeAddress)) = 1
  /\ \E i \in 1..Len(graph.edges) :
       /\ graph.edges[i].address.type = "MERGED_AS"
       /\ graph.edges[i].dst = call.subject.nodeAddress
  /\ result.kind = "ok"

\* The nodes issueOrPRByNumber visits, in the order of the visit.
ScanOrder == nodes(graph, "ISSUE") \o nodes(graph, "PULL_REQUEST")

MatchesOf(number) ==
  { i \in 1..Len(ScanOrder) :
      /\ "number" \in DOMAIN ScanOrder[i].payload
      /\ ScanOrder[i].payload.number = number }

\* C5: issueOrPRByNumber(n) returns the last match of the scan over all
\* Issue nodes and then all PullRequest nodes, as an Issue or a PullRequest
\* according to the node matched, and undefined when nothing matches,
\* whichever Repository it is called on.
C5_LastMatchWins ==
  call.op = "issueOrPRByNumber" =>
    LET M == MatchesOf(call.number)
    IN IF M = {} THEN result.kind = "undefined"
       ELSE LET last == CHOOSE i \in M : \A j \in M : j <= i
            IN /\ result.kind = "ok"
               /\ result.val.nodeAddress = ScanOrder[last].address
               /\ result.val.class = VariantOf(ScanOrder[last].address.type)

\* An issue and a pull request have the number; a repository with no node
\* of its own is asked.
C5_Witness ==
  /\ call.op = "issueOrPRByNumber"
  /\ \E i, j \in MatchesOf(call.number) :
       /\ ScanOrder[i].address.type = "ISSUE"
       /\ ScanOrder[j].address.type = "PULL_REQUEST"
  /\ result.kind = "ok"
  /\ result.val.class = "PullRequest"

\* The destinations of the outgoing edges of type t of the node at p.
OutEdges(p, t) ==
  SelectSeq(graph.edges, LAMBDA e : e.address.type = t /\ e.src = p)

\* C6: authors() of a post returns one Author per AUTHORS edge whose source
\* is the post and whose destination is an Author node; incoming AUTHORS
\* edges contribute nothing.
C6_AuthorsOutgoingOnly ==
  call.op = "authors" =>
    LET out == SelectSeq(OutEdges(call.subject.nodeAddress, "AUTHORS"),
                         LAMBDA e : e.dst.type = "AUTHOR")
    IN /\ result.kind = "ok"
       /\ Len(result.val) = Len(out)
       /\ \A i \in 1..Len(out) : result.val[i] = GithubEntity("Author", out[i].dst)

PayloadFields == {"url", "body", "number", "title", "owner", "name", "login", "subtype", "state"}

\* C7: an address of the namespace with a tag of the closed set and no node
\* behind it resolves to an entity; address() and type() of the entity
\* succeed; every read of a payload field fails with MissingPayload.
C7_DanglingFailsOnAccess ==
  /\ ( /\ call.op = "asEntity"
       /\ call.addr.pluginName = PLUGIN_NAME
       /\ call.addr.type \in ClosedSet
       /\ Dangling(call.addr) ) => result.kind = "ok"
  /\ (call.op \in PayloadFields /\ Dangling(call.subject.nodeAddress)) =>
       Threw(result, "MissingPayload")
  /\ (call.op = "type" /\ Dangling(call.subject.nodeAddress)) =>
       result.kind = "ok" /\ result.val = call.subject.nodeAddress.type
  /\ (call.op = "address" /\ Dangling(call.subject.nodeAddress)) =>
       result.kind = "ok" /\ result.val = call.subject.nodeAddress

C7_Witness ==
  /\ call.op = "body"
  /\ call.subject = ent
  /\ Dangling(ent.nodeAddress)
  /\ node(graph, ent.nodeAddress).kind = "undefined"
  /\ Threw(result, "MissingPayload")

\* C8: no step of the porcelain changes the graph, whether the call
\* succeeds or fails, and a call repeated returns what it returned before.
C8_GraphUnchanged ==
  [][ /\ graph' = graph
      /\ call' = call => (result'.kind = result.kind /\ result'.val = result.val) ]_vars

\* A failed call.
C8_Witness ==
  /\ call.op = "references"
  /\ result.kind = "error"
  /\ graph.edges # <<>>

\* What asEntity does with a destination that does not resolve.
ResolutionError(a) ==
  IF a.pluginName # PLUGIN_NAME THEN "WrongNamespace" ELSE "UnknownEntityType"

Resolvable(a) == a.pluginName = PLUGIN_NAME /\ a.type \in ClosedSet

\* C9: references() resolves the destination of every outgoing REFERENCES
\* edge, whatever its type: when all resolve, it returns one entity per
\* edge, of the variant of the destination's tag; when one does not, the
\* call fails with the resolution error of the first such destination and
\* returns nothing.
C9_ReferencesAllOrNothing ==
  call.op = "references" =>
    LET out == OutEdges(call.subject.nodeAddress, "REFERENCES")
        bad == { i \in 1..Len(out) : ~Resolvable(out[i].dst) }
    IN IF bad = {}
       THEN /\ result.kind = "ok"
            /\ Len(result.val) = Len(out)
            /\ \A i \in 1..Len(out) :
                 result.val[i] = GithubEntity(VariantOf(out[i].dst.type), out[i].dst)
       ELSE LET first == CHOOSE i \in bad : \A j \in bad : i <= j
            IN Threw(result, ResolutionError(out[first].dst))

\* A reference that resolves, followed by one that does not.
C9_Witness ==
  /\ call.op = "references"
  /\ LET out == OutEdges(call.subject.nodeAddress, "REFERENCES")
     IN /\ Len(out) = 2
        /\ Resolvable(out[1].dst)
        /\ ~Resolvable(out[2].dst)
  /\ result.kind = "error"

\* The Repository nodes with the owner and the name.
RepositoriesNamed(owner, name) ==
  { i \in 1..Len(graph.nodes) :
      /\ graph.nodes[i].address.type = "REPOSITORY"
      /\ graph.nodes[i].payload.owner = owner
      /\ graph.nodes[i].payload.name = name }

\* C10: Porcelain.repository(owner, name) returns the Repository of the one
\* Repository node with that owner and name, fails when there are two or
\* more, and returns undefined when there is none.
C10_RepositoryByOwnerAndName ==
  call.op = "repository" =>
    LET M == RepositoriesNamed(call.owner, call.name)
    IN /\ Cardinality(M) = 1 =>
            /\ result.kind = "ok"
            /\ \A i \in M : result.val = GithubEntity("Repository", graph.nodes[i].address)
       /\ Cardinality(M) >= 2 => result.kind = "error"
       /\ Cardinality(M) = 0 => result.kind = "undefined"

C10_Witness ==
  /\ call.op = "repository"
  /\ Cardinality(RepositoriesNamed(call.owner, call.name)) = 2
  /\ result.kind = "error"

====
